---- MODULE Spec2Model ----
(***************************************************************************)
(* graceful.Run (src/graceful.go): a net/http server run under an          *)
(* oklog/run actor group (server, termination watcher, readiness/exit),    *)
(* a SIGHUP goroutine that asks the tableflip upgrader for a replacement   *)
(* process, and the socket handoff between process generations.            *)
(***************************************************************************)
EXTENDS Integers, FiniteSets, Sequences, TLC

\* ---------------------------------------------------------------- bounds
MaxGen == 2
MaxConns == 1
MaxHups == 1
MaxTerms == 1

\* ------------------------------------------------------------- constants
ShutdownTimeout == 3
SigBuffer == 1
ChBuffer == 2

Gens == 1..MaxGen
NoGen == 0
ActorSet == {"server", "watcher", "ready"}
\* the values the embedding program may give the package variable
TimeoutValues == {0 - 1, 0, ShutdownTimeout}

VARIABLES gen, timeout, hups, terms

vars == <<gen, timeout, hups, terms>>

\* ----------------------------------------------------------------- state
\* One process generation before it is spawned.
InitGen ==
    [ main            |-> "none",      \* position of graceful.Run
      upgNil          |-> FALSE,       \* tableflip.New failed: upg is nil
      nilCalls        |-> 0,           \* coordinator methods invoked on the nil upg
      listenReq       |-> FALSE,       \* line 46 was executed
      parent          |-> NoGen,
      child           |-> NoGen,       \* child started by the latest doUpgrade
      hup             |-> "off",       \* the SIGHUP goroutine
      sig             |-> 0,           \* signals buffered in sig
      hupGot          |-> 0,           \* SIGHUPs that reached the subscribed process
      hupLost         |-> 0,           \* of these, dropped because sig was full
      upgCalls        |-> 0,           \* invocations of upg.Upgrade()
      upgRes          |-> "none",      \* what the latest upg.Upgrade() returned
      upgRun          |-> "off",       \* the upgrader's own goroutine
      readyC          |-> FALSE,       \* Ready() was called
      readyRes        |-> "none",      \* what Ready() returned
      stopC           |-> FALSE,       \* Stop() was called
      exitCause       |-> "none",      \* why Exit() fired
      fds             |-> "none",      \* the coordinator's copy of the socket
      ln              |-> FALSE,       \* the server's listener is open
      run             |-> [a \in ActorSet |-> "notStarted"],
      srvErr          |-> "none",      \* what Serve returned
      trigger         |-> "none",      \* the first actor whose run returned
      trigErr         |-> "none",
      grp             |-> "off",       \* position of group.Run
      intCalls        |-> [a \in ActorSet |-> 0],
      srvInt          |-> "idle",      \* position of the server's interrupt
      ctx             |-> "none",      \* the Shutdown context
      shutErr         |-> "none",      \* what server.Shutdown(ctx) returned
      conns           |-> 0,           \* in-flight connections
      forceClosed     |-> 0,           \* connections server.Close() cut
      subscribed      |-> FALSE,       \* ch is subscribed for SIGINT/SIGTERM
      ch              |-> 0,           \* signals buffered in ch
      termRecv        |-> FALSE,       \* a SIGINT/SIGTERM reached ch
      cancelInterrupt |-> FALSE,       \* cancelInterrupt is closed
      chClosed        |-> FALSE,
      groupErr        |-> "none",      \* what group.Run returned
      runReturns      |-> 0 ]

Alive(g) == gen[g].main \in {"new", "listen", "group"}
Dead(g) == gen[g].main \in {"returned", "fatal", "panic", "killed", "sigkilled"}
InGroup(g) == gen[g].main = "group"

\* A process that ends loses its goroutines, descriptors, connections and
\* buffered signals; what it did until then stays on record.
Ended(st, how) ==
    [st EXCEPT !.main = how, !.conns = 0, !.sig = 0, !.ch = 0,
               !.ln = FALSE, !.fds = "closed", !.hup = "off", !.upgRun = "off",
               !.upgRes = "none", !.child = NoGen,
               !.grp = IF how = "returned" \/ @ = "off" THEN @ ELSE "gone",
               !.run = IF how = "returned" THEN @ ELSE [a \in ActorSet |-> "gone"],
               !.readyC = IF how = "returned" THEN @ ELSE FALSE,
               !.stopC = IF how = "returned" THEN @ ELSE FALSE,
               !.cancelInterrupt = IF how = "returned" THEN @ ELSE FALSE,
               !.subscribed = IF how = "returned" THEN @ ELSE FALSE]

\* child.Kill() of the upgrader: SIGKILL to the child process, if it still runs.
Kill(st) == IF st.main \in {"new", "listen", "group"} THEN Ended(st, "killed") ELSE st

\* errors <- a.execute(): the first error sent is the one group.Run receives.
Returned(st, a, e) ==
    [st EXCEPT !.run[a] = "returned",
               !.trigger = IF st.trigger = "none" THEN a ELSE @,
               !.trigErr = IF st.trigger = "none" THEN e ELSE @]

\* the timeout is not applied: Shutdown always gets context.Background()
CtxFor_NoDeadline(t) == "none"

\* the sign of the timeout is not looked at: Shutdown always gets a deadline
CtxFor_AlwaysDeadline(t) == "armed"

\* ctx of the server's interrupt: a deadline only for a positive timeout.
CtxFor(t) == IF t > 0 THEN "armed" ELSE "none"

Init ==
    /\ gen = [g \in Gens |-> IF g = 1 THEN [InitGen EXCEPT !.main = "new"]
                                      ELSE InitGen]
    /\ timeout \in TimeoutValues
    /\ hups = 0
    /\ terms = 0


Put(g, st) == gen' = [gen EXCEPT ![g] = st]

Set(g, st) == Put(g, st) /\ UNCHANGED <<timeout, hups, terms>>

\* the upgrader's processReady and parentExited, as its loop sees them
ProcessReady(g) == gen[g].readyC
ParentExited(g) == IF gen[g].parent = NoGen THEN TRUE ELSE Dead(gen[g].parent)

FreeGens == {c \in Gens : gen[c].main = "none"}

\* ------------------------------------------------------- start of the process
\* tableflip.New: a failure is logged with log.Errorf and Run goes on with a
\* nil upg; the SIGHUP goroutine is started either way.
New(g) ==
    /\ gen[g].main = "new"
    /\ \E ok \in BOOLEAN :
         Set(g, [gen[g] EXCEPT !.main = "listen",
                               !.upgNil = ~ok,
                               !.upgRun = IF ok THEN "loop" ELSE "off",
                               !.hup = "start"])

\* upg.Fds.Listen on a nil upg: nil dereference at line 46; the deferred
\* upg.Stop() then runs on the nil upg while the panic unwinds.
ListenNil(g) ==
    /\ gen[g].main = "listen"
    /\ gen[g].upgNil
    /\ Set(g, Ended([gen[g] EXCEPT !.listenReq = TRUE, !.nilCalls = @ + 1], "panic"))

\* upg.Fds.Listen: the inherited descriptor if there is one, else a fresh bind,
\* which may fail (log.Fatalf). group.Add x3, then group.Run.
Listen(g) ==
    /\ gen[g].main = "listen"
    /\ ~gen[g].upgNil
    /\ \E ok \in BOOLEAN :
         /\ (gen[g].fds = "inherited") => ok
         /\ IF ok
              THEN Set(g, [gen[g] EXCEPT !.listenReq = TRUE, !.ln = TRUE,
                                         !.fds = "used", !.main = "group",
                                         !.grp = "wait"])
              ELSE Set(g, Ended([gen[g] EXCEPT !.listenReq = TRUE], "fatal"))

\* ------------------------------------------------------- the SIGHUP goroutine
\* signal.Notify(sig, syscall.SIGHUP)
HupNotify(g) ==
    /\ Alive(g)
    /\ gen[g].hup = "start"
    /\ Set(g, [gen[g] EXCEPT !.hup = "wait"])

\* A SIGHUP reaches the process, the n-th at most: buffered in sig if there is
\* room, dropped by signal.Notify's non-blocking send otherwise; the default
\* disposition ends a process that has not subscribed yet.
SendHUPUpTo(g, n) ==
    /\ Alive(g)
    /\ hups < n
    /\ hups' = hups + 1
    /\ IF gen[g].hup \in {"wait", "upgrade"}
         THEN IF gen[g].sig < SigBuffer
                THEN Put(g, [gen[g] EXCEPT !.hupGot = @ + 1, !.sig = @ + 1])
                ELSE Put(g, [gen[g] EXCEPT !.hupGot = @ + 1, !.hupLost = @ + 1])
         ELSE Put(g, Ended(gen[g], "sigkilled"))
    /\ UNCHANGED <<timeout, terms>>

\* ch is subscribed for SIGHUP as well: a SIGHUP is queued for the watcher too
SendHUP_AlsoToCh(g) ==
    /\ Alive(g)
    /\ hups < MaxHups
    /\ hups' = hups + 1
    /\ IF gen[g].hup \in {"wait", "upgrade"}
         THEN Put(g, [gen[g] EXCEPT
                        !.hupGot = @ + 1,
                        !.sig = IF @ < SigBuffer THEN @ + 1 ELSE @,
                        !.hupLost = IF gen[g].sig < SigBuffer THEN @ ELSE @ + 1,
                        !.ch = IF gen[g].subscribed /\ @ < ChBuffer THEN @ + 1 ELSE @])
         ELSE Put(g, Ended(gen[g], "sigkilled"))
    /\ UNCHANGED <<timeout, terms>>

SendHUP(g) == SendHUPUpTo(g, MaxHups)

\* one more SIGHUP than MaxHups, for a burst of signals
SendHUPBurst(g) == SendHUPUpTo(g, MaxHups + 1)

\* upg.Upgrade() is called a second time for the signal taken
HupRecv_Twice(g) ==
    /\ Alive(g)
    /\ gen[g].hup = "wait"
    /\ gen[g].sig > 0
    /\ Set(g, [gen[g] EXCEPT !.sig = @ - 1, !.hup = "upgrade", !.upgRes = "pending",
                             !.upgCalls = @ + 2])

\* for range sig: take one signal and call upg.Upgrade()
HupRecv(g) ==
    /\ Alive(g)
    /\ gen[g].hup = "wait"
    /\ gen[g].sig > 0
    /\ Set(g, [gen[g] EXCEPT !.sig = @ - 1, !.hup = "upgrade", !.upgRes = "pending",
                             !.upgCalls = @ + 1])

\* upg.Upgrade() on the nil upg: nil dereference in the goroutine
UpgradeNil(g) ==
    /\ Alive(g)
    /\ gen[g].hup = "upgrade"
    /\ gen[g].upgNil
    /\ Set(g, Ended([gen[g] EXCEPT !.nilCalls = @ + 1], "panic"))

\* the goroutine gives up after a failed upgrade instead of looping
UpgradeErr_Return(st) == [st EXCEPT !.upgRes = "err", !.hup = "off"]

\* upg.Upgrade() returned err: logged with log.Errorf, back to the range loop
UpgradeErr(st) == [st EXCEPT !.upgRes = "err", !.hup = "wait"]

\* Upgrade(): stopC or exitC is closed
UpgradeRefused(g) ==
    /\ Alive(g)
    /\ gen[g].hup = "upgrade"
    /\ ~gen[g].upgNil
    /\ gen[g].upgRun # "doUpgrade"
    /\ gen[g].stopC \/ gen[g].upgRun = "exited"
    /\ Set(g, UpgradeErr(gen[g]))

\* the upgrader takes the request while not ready, or while its parent lives
UpgradeNotReady(g) ==
    /\ Alive(g)
    /\ gen[g].hup = "upgrade"
    /\ gen[g].upgRun = "loop"
    /\ ~ProcessReady(g) \/ ~ParentExited(g)
    /\ Set(g, UpgradeErr(gen[g]))

\* doUpgrade: startChild fails
UpgradeStartFail(g) ==
    /\ Alive(g)
    /\ gen[g].hup = "upgrade"
    /\ gen[g].upgRun = "loop"
    /\ ProcessReady(g) /\ ParentExited(g)
    /\ Set(g, UpgradeErr(gen[g]))

\* doUpgrade: startChild starts the next generation with a copy of the socket
UpgradeSpawn(g) ==
    /\ Alive(g)
    /\ gen[g].hup = "upgrade"
    /\ gen[g].upgRun = "loop"
    /\ ProcessReady(g) /\ ParentExited(g)
    /\ FreeGens # {}
    /\ LET c == CHOOSE x \in FreeGens : \A y \in FreeGens : x <= y
       IN gen' = [gen EXCEPT ![g] = [@ EXCEPT !.upgRun = "doUpgrade", !.child = c],
                             ![c] = [InitGen EXCEPT !.main = "new", !.parent = g,
                                                    !.fds = "inherited"]]
    /\ UNCHANGED <<timeout, hups, terms>>

\* the upgrader goes back to its loop after a successful upgrade: exitC stays open
UpgradeDone_NoExit(st) == [st EXCEPT !.upgRes = "ok", !.hup = "wait", !.upgRun = "loop"]

\* doUpgrade: the child reported ready; the upgrader closes its copy of the
\* socket and its goroutine returns, which closes exitC. Upgrade() returns nil.
UpgradeDone(st) ==
    [st EXCEPT !.upgRes = "ok", !.hup = "wait", !.upgRun = "exited",
               !.exitCause = "upgraded", !.fds = "closed"]

\* the upgrader does not wait for the child's ready message
DoUpgradeReady_NoWait(g) ==
    /\ Alive(g)
    /\ gen[g].upgRun = "doUpgrade"
    /\ Set(g, UpgradeDone(gen[g]))

DoUpgradeReady(g) ==
    /\ Alive(g)
    /\ gen[g].upgRun = "doUpgrade"
    /\ gen[gen[g].child].readyRes = "ok"
    /\ Set(g, UpgradeDone(gen[g]))

\* doUpgrade: the child exited before it reported ready
DoUpgradeChildExited(g) ==
    /\ Alive(g)
    /\ gen[g].upgRun = "doUpgrade"
    /\ Dead(gen[g].child)
    /\ Set(g, [UpgradeErr(gen[g]) EXCEPT !.upgRun = "loop"])

\* doUpgrade: stopC is closed: child.Kill()
DoUpgradeStop(g) ==
    /\ Alive(g)
    /\ gen[g].upgRun = "doUpgrade"
    /\ gen[g].stopC
    /\ LET c == gen[g].child
       IN gen' = [gen EXCEPT ![g] = [UpgradeErr(@) EXCEPT !.upgRun = "loop"],
                             ![c] = Kill(@)]
    /\ UNCHANGED <<timeout, hups, terms>>

\* the timeout is taken for the child's ready message
UpgradeTimedOut_AsReady(st) == UpgradeDone(st)

\* doUpgrade: the upgrade timeout elapsed: child.Kill()
UpgradeTimedOut(st) == [UpgradeErr(st) EXCEPT !.upgRun = "loop"]

DoUpgradeTimeout(g) ==
    /\ Alive(g)
    /\ gen[g].upgRun = "doUpgrade"
    /\ LET c == gen[g].child
       IN gen' = [gen EXCEPT ![g] = UpgradeTimedOut(@),
                             ![c] = Kill(@)]
    /\ UNCHANGED <<timeout, hups, terms>>

\* the upgrader's loop: stopC is closed; it closes its copy of the socket and
\* returns, which closes exitC
UpgRunStop(g) ==
    /\ Alive(g)
    /\ gen[g].upgRun = "loop"
    /\ gen[g].stopC
    /\ Set(g, [gen[g] EXCEPT !.upgRun = "exited", !.exitCause = "stopped",
                             !.fds = "closed"])


\* ------------------------------------------------------------ server actor
\* server.Serve(ln): ErrServerClosed at once if Shutdown was already called
ServeStart(g) ==
    /\ InGroup(g)
    /\ gen[g].run["server"] = "notStarted"
    /\ IF gen[g].srvInt = "idle"
         THEN Set(g, [gen[g] EXCEPT !.run["server"] = "serving"])
         ELSE Set(g, [Returned(gen[g], "server", "ErrServerClosed")
                        EXCEPT !.srvErr = "ErrServerClosed"])

\* Serve returns because Accept failed on its own
ServeFail(g) ==
    /\ InGroup(g)
    /\ gen[g].run["server"] = "serving"
    /\ gen[g].srvInt = "idle"
    /\ Set(g, [Returned(gen[g], "server", "AcceptError") EXCEPT !.srvErr = "AcceptError"])

\* Serve returns ErrServerClosed after Shutdown closed the listener
ServeClosed(g) ==
    /\ InGroup(g)
    /\ gen[g].run["server"] = "serving"
    /\ gen[g].srvInt # "idle"
    /\ Set(g, [Returned(gen[g], "server", "ErrServerClosed")
                 EXCEPT !.srvErr = "ErrServerClosed"])

\* Serve accepts a connection, whose request is then in flight
Accept(g) ==
    /\ InGroup(g)
    /\ gen[g].run["server"] = "serving"
    /\ gen[g].ln
    /\ gen[g].conns < MaxConns
    /\ Set(g, [gen[g] EXCEPT !.conns = @ + 1])

\* an in-flight connection finishes on its own
ConnFinish(g) ==
    /\ InGroup(g)
    /\ gen[g].conns > 0
    /\ Set(g, [gen[g] EXCEPT !.conns = @ - 1])

\* --------------------------------------------------- termination watcher
\* signal.Notify(ch, syscall.SIGINT, syscall.SIGTERM)
WatcherStart(g) ==
    /\ InGroup(g)
    /\ gen[g].run["watcher"] = "notStarted"
    /\ Set(g, [gen[g] EXCEPT !.run["watcher"] = "waiting", !.subscribed = TRUE])

\* A SIGINT or SIGTERM reaches the process: buffered in ch if it is subscribed
\* and has room; the default disposition ends a process that is not subscribed.
SendTERM(g) ==
    /\ Alive(g)
    /\ terms < MaxTerms
    /\ terms' = terms + 1
    /\ \E s \in {"SIGINT", "SIGTERM"} :
         IF gen[g].subscribed
           THEN /\ gen[g].ch < ChBuffer
                /\ Put(g, [gen[g] EXCEPT !.ch = @ + 1, !.termRecv = TRUE])
           ELSE Put(g, Ended(gen[g], "sigkilled"))
    /\ UNCHANGED <<timeout, hups>>

\* case sig := <-ch: return nil
WatcherSignal(g) ==
    /\ InGroup(g)
    /\ gen[g].run["watcher"] = "waiting"
    /\ gen[g].ch > 0
    /\ Set(g, [Returned(gen[g], "watcher", "nil") EXCEPT !.ch = @ - 1])

\* case <-cancelInterrupt: return nil
WatcherCancel(g) ==
    /\ InGroup(g)
    /\ gen[g].run["watcher"] = "waiting"
    /\ gen[g].cancelInterrupt
    /\ Set(g, Returned(gen[g], "watcher", "nil"))

\* ---------------------------------------------------- readiness/exit actor
\* What upg.Ready() returns: the PID file may not be writable, and the ready
\* message cannot be sent to a parent that is gone.
ReadyResult(st, pidOk, parentGone) ==
    IF ~pidOk THEN "err"
    ELSE IF st.parent # NoGen /\ parentGone THEN "err"
    ELSE "ok"

\* _ = upg.Ready(); then wait on upg.Exit()
ReadyStart(g) ==
    /\ InGroup(g)
    /\ gen[g].run["ready"] = "notStarted"
    /\ \E pidOk \in BOOLEAN :
         LET gone == IF gen[g].parent = NoGen THEN FALSE ELSE Dead(gen[g].parent)
         IN Set(g, [gen[g] EXCEPT !.run["ready"] = "waitExit",
                                  !.readyC = TRUE,
                                  !.readyRes = ReadyResult(gen[g], pidOk, gone)])

\* <-upg.Exit(): return nil
ReadyExit(g) ==
    /\ InGroup(g)
    /\ gen[g].run["ready"] = "waitExit"
    /\ gen[g].upgRun = "exited"
    /\ Set(g, Returned(gen[g], "ready", "nil"))

\* ------------------------------------------------------------- group.Run
\* What the server's interrupt does with the trigger's error e: log.Fatalf
\* ends the process for a non-nil e; otherwise server.Shutdown(ctx) starts,
\* which closes the listener.
ServerInterrupt_KeepsListener(st, t) ==
    IF st.trigErr # "nil"
      THEN Ended([st EXCEPT !.intCalls["server"] = @ + 1, !.srvInt = "fatal"], "fatal")
      ELSE [st EXCEPT !.intCalls["server"] = @ + 1, !.srvInt = "shutdown",
                      !.ctx = CtxFor(t), !.grp = "server"]

ServerInterrupt(st, t) ==
    IF st.trigErr # "nil"
      THEN Ended([st EXCEPT !.intCalls["server"] = @ + 1, !.srvInt = "fatal"], "fatal")
      ELSE [st EXCEPT !.intCalls["server"] = @ + 1, !.srvInt = "shutdown",
                      !.ln = FALSE, !.ctx = CtxFor(t), !.grp = "server"]

\* err := <-errors; the first interrupt, the server's, is called
GroupInterruptServer(g) ==
    /\ InGroup(g)
    /\ gen[g].grp = "wait"
    /\ gen[g].trigger # "none"
    /\ Set(g, ServerInterrupt(gen[g], timeout))

\* the deadline of ctx passes
CtxExpire(g) ==
    /\ InGroup(g)
    /\ gen[g].srvInt = "shutdown"
    /\ gen[g].ctx = "armed"
    /\ Set(g, [gen[g] EXCEPT !.ctx = "done"])

\* server.Close(): every connection still open is cut; the interrupt returns
ServerClose(st) ==
    [st EXCEPT !.forceClosed = st.conns, !.conns = 0,
               !.srvInt = "returned", !.grp = "watcher"]

\* Shutdown returns nil: no connection is left
ShutdownDrained(g) ==
    /\ InGroup(g)
    /\ gen[g].srvInt = "shutdown"
    /\ gen[g].conns = 0
    /\ Set(g, [ServerClose(gen[g]) EXCEPT !.shutErr = "nil"])

\* the error of Shutdown is treated as fatal
ShutdownDeadline_Escalates(g) ==
    /\ InGroup(g)
    /\ gen[g].srvInt = "shutdown"
    /\ gen[g].ctx = "done"
    /\ Set(g, Ended([gen[g] EXCEPT !.shutErr = "DeadlineExceeded"], "fatal"))

\* Shutdown returns ctx.Err(): the deadline passed first; the error is logged
\* with log.Errorf and server.Close() follows
ShutdownDeadline(g) ==
    /\ InGroup(g)
    /\ gen[g].srvInt = "shutdown"
    /\ gen[g].ctx = "done"
    /\ Set(g, [ServerClose(gen[g]) EXCEPT !.shutErr = "DeadlineExceeded"])

\* the watcher's interrupt: close(cancelInterrupt); signal.Stop(ch)
WatcherInterrupt(st) ==
    [st EXCEPT !.intCalls["watcher"] = @ + 1, !.cancelInterrupt = TRUE,
               !.subscribed = FALSE, !.grp = "ready"]

GroupInterruptWatcher(g) ==
    /\ InGroup(g)
    /\ gen[g].grp = "watcher"
    /\ Set(g, WatcherInterrupt(gen[g]))

\* the readiness/exit actor's interrupt: upg.Stop()
ReadyInterrupt(st) ==
    [st EXCEPT !.intCalls["ready"] = @ + 1, !.stopC = TRUE, !.grp = "join"]

GroupInterruptReady(g) ==
    /\ InGroup(g)
    /\ gen[g].grp = "ready"
    /\ Set(g, ReadyInterrupt(gen[g]))

\* group.Run returns the first error once every run has returned; Run then
\* ends the process with log.Fatalf for a non-nil error, and otherwise
\* returns through its deferred close(ch) and upg.Stop().
GroupResult(st) == st.trigErr

GroupReturn(g) ==
    /\ InGroup(g)
    /\ gen[g].grp = "join"
    /\ \A a \in ActorSet : gen[g].run[a] = "returned"
    /\ LET st == [gen[g] EXCEPT !.groupErr = GroupResult(gen[g]),
                                !.runReturns = @ + 1, !.grp = "done"]
       IN IF st.groupErr # "nil"
            THEN Set(g, Ended(st, "fatal"))
            ELSE Set(g, Ended([st EXCEPT !.chClosed = TRUE, !.stopC = TRUE], "returned"))

\* ------------------------------------------------------------------ system
Next ==
    \E g \in Gens :
        \/ New(g)
        \/ ListenNil(g)
        \/ Listen(g)
        \/ HupNotify(g)
        \/ SendHUP(g)
        \/ HupRecv(g)
        \/ UpgradeNil(g)
        \/ UpgradeRefused(g)
        \/ UpgradeNotReady(g)
        \/ UpgradeStartFail(g)
        \/ UpgradeSpawn(g)
        \/ DoUpgradeReady(g)
        \/ DoUpgradeChildExited(g)
        \/ DoUpgradeStop(g)
        \/ DoUpgradeTimeout(g)
        \/ UpgRunStop(g)
        \/ ServeStart(g)
        \/ ServeFail(g)
        \/ ServeClosed(g)
        \/ Accept(g)
        \/ ConnFinish(g)
        \/ WatcherStart(g)
        \/ SendTERM(g)
        \/ WatcherSignal(g)
        \/ WatcherCancel(g)
        \/ ReadyStart(g)
        \/ ReadyExit(g)
        \/ GroupInterruptServer(g)
        \/ CtxExpire(g)
        \/ ShutdownDrained(g)
        \/ ShutdownDeadline(g)
        \/ GroupInterruptWatcher(g)
        \/ GroupInterruptReady(g)
        \/ GroupReturn(g)

Spec == Init /\ [][Next]_vars


\* Fairness: every step of the program itself is eventually taken when it
\* stays possible (goroutines are scheduled, timers fire). Signals, client
\* connections, accept failures and the upgrade timeout are the environment's.
Fairness ==
    \A g \in Gens :
        /\ WF_vars(New(g))
        /\ WF_vars(ListenNil(g))
        /\ WF_vars(Listen(g))
        /\ WF_vars(HupNotify(g))
        /\ WF_vars(HupRecv(g))
        /\ WF_vars(UpgradeNil(g))
        /\ WF_vars(UpgradeRefused(g) \/ UpgradeNotReady(g)
                     \/ UpgradeStartFail(g) \/ UpgradeSpawn(g))
        /\ WF_vars(DoUpgradeReady(g))
        /\ WF_vars(DoUpgradeChildExited(g))
        /\ WF_vars(DoUpgradeStop(g))
        /\ WF_vars(UpgRunStop(g))
        /\ WF_vars(ServeStart(g))
        /\ WF_vars(ServeClosed(g))
        /\ WF_vars(WatcherStart(g))
        /\ WF_vars(WatcherSignal(g))
        /\ WF_vars(WatcherCancel(g))
        /\ WF_vars(ReadyStart(g))
        /\ WF_vars(ReadyExit(g))
        /\ WF_vars(GroupInterruptServer(g))
        /\ WF_vars(CtxExpire(g))
        /\ WF_vars(ShutdownDrained(g))
        /\ WF_vars(ShutdownDeadline(g))
        /\ WF_vars(GroupInterruptWatcher(g))
        /\ WF_vars(GroupInterruptReady(g))
        /\ WF_vars(GroupReturn(g))

FairSpec == Init /\ [][Next]_vars /\ Fairness

\* The default timeout and a burst of SIGHUPs: one more than MaxHups.
BurstInit == Init /\ timeout = ShutdownTimeout

BurstNext == Next \/ \E g \in Gens : SendHUPBurst(g)

BurstSpec == BurstInit /\ [][BurstNext]_vars

\* ------------------------------------------------------------ observations
\* g holds the listening socket of the address open
SocketOpen(g) == Alive(g) /\ (gen[g].ln \/ gen[g].fds \in {"inherited", "used"})

\* g's Serve loop is accepting on the socket
Accepting(g) == InGroup(g) /\ gen[g].run["server"] = "serving" /\ gen[g].ln

\* g ended on its own account: Run returned, or log.Fatalf ended it
EndedItself(g) == gen[g].main \in {"returned", "fatal"}

\* a signal ended or is ending a generation
ShutdownSignalled == \E g \in Gens : gen[g].termRecv \/ gen[g].main = "sigkilled"

\* a server's accept loop failed on its own
ServerFailed == \E g \in Gens : gen[g].srvErr = "AcceptError"


\* ------------------------------------------------------------------ claims

\* C1: whichever actor's run returns first, with error e, group.Run returns
\* exactly e: a generation that reached a trigger and then ended on its own
\* account has had group.Run return the trigger's error.
C1_FirstErrorReturned ==
    \A g \in Gens :
        (gen[g].trigger # "none" /\ EndedItself(g)) => gen[g].groupErr = gen[g].trigErr

\* C2: whatever the trigger and its error, group.Run returns exactly once and
\* by then every actor's interrupt has been invoked exactly once.
C2_RunOnceInterruptsOnce ==
    \A g \in Gens :
        /\ gen[g].runReturns <= 1
        /\ gen[g].runReturns = 1 => \A a \in ActorSet : gen[g].intCalls[a] = 1
        /\ (gen[g].trigger # "none" /\ EndedItself(g)) =>
               /\ gen[g].runReturns = 1
               /\ \A a \in ActorSet : gen[g].intCalls[a] = 1


\* Run returned normally: nil group error, every run returned, server shut
\* down, coordinator stopped
ReturnedNormally(g) ==
    /\ gen[g].main = "returned"
    /\ gen[g].groupErr = "nil"
    /\ \A a \in ActorSet : gen[g].run[a] = "returned"
    /\ gen[g].srvInt = "returned"
    /\ gen[g].stopC
    /\ ~gen[g].ln

\* C3: with a positive ShutdownTimeout, once a SIGINT or SIGTERM has reached a
\* running generation, eventually its watcher has returned nil, the server is
\* shut down, the coordinator is stopped, all three runs have returned and Run
\* has returned normally with a nil group error, also when a connection never
\* finishes. The environment may cut this short: the process can be killed
\* (by its parent's upgrade timeout, or by a signal after signal.Stop), or its
\* accept loop can fail on its own before the watcher returns.
C3_SignalLeadsToReturn ==
    \A g \in Gens :
        (timeout > 0 /\ gen[g].termRecv)
            ~> \/ ReturnedNormally(g)
               \/ gen[g].main \in {"killed", "sigkilled"}
               \/ gen[g].srvErr = "AcceptError"

C3_Witness ==
    \E g \in Gens :
        /\ timeout > 0
        /\ gen[g].termRecv
        /\ gen[g].trigger = "watcher"
        /\ gen[g].forceClosed > 0
        /\ ReturnedNormally(g)

\* C4: a predecessor whose Exit fired because of the upgrade has begun to shut
\* its server down only if a successor it started has had Ready() succeed.
C4_ShutdownAfterReady ==
    \A g \in Gens :
        (gen[g].exitCause = "upgraded" /\ gen[g].srvInt # "idle") =>
            \E c \in Gens : gen[c].parent = g /\ gen[c].readyRes = "ok"

C4_Witness ==
    \E g \in Gens :
        /\ gen[g].exitCause = "upgraded"
        /\ gen[g].trigger = "ready"
        /\ gen[g].srvInt = "shutdown"
        /\ \E c \in Gens : gen[c].parent = g /\ gen[c].readyRes = "ok" /\ Accepting(c)

\* C5: from the moment the first generation holds its listener, and as long as
\* no signal has ended a generation and no accept loop has failed, some
\* generation has the listening socket open.
C5_NoAcceptGap ==
    (gen[1].grp # "off" /\ ~ShutdownSignalled /\ ~ServerFailed) =>
        \E g \in Gens : SocketOpen(g)

C5_Witness ==
    /\ ~ShutdownSignalled /\ ~ServerFailed
    /\ gen[1].main = "returned"
    /\ gen[1].exitCause = "upgraded"
    /\ \E c \in Gens : gen[c].parent = 1 /\ gen[c].readyRes = "ok" /\ SocketOpen(c)

\* C6 as stated: no two generations accept on the shared address at once.
C6_Orig_OneAcceptor ==
    \A g, h \in Gens : (g # h) => ~(Accepting(g) /\ Accepting(h))

\* C6 as amended: two generations accept at once only as a predecessor and
\* the successor it started, and only while the predecessor's server has not
\* begun to shut down.
C6_OverlapOnlyBeforeShutdown ==
    \A g, h \in Gens :
        (g # h /\ Accepting(g) /\ Accepting(h)) =>
            \E p, c \in {g, h} :
                p # c /\ gen[c].parent = p /\ gen[p].srvInt = "idle"

C6_Witness ==
    \E g, h \in Gens :
        /\ gen[h].parent = g
        /\ Accepting(g) /\ Accepting(h)
        /\ gen[h].readyRes = "ok"


\* the step in which a pending upg.Upgrade() returns an error
UpgradeFails(g) == gen[g].upgRes = "pending" /\ gen'[g].upgRes = "err"

\* C7: a failed replacement leaves the generation as it was: in the step in
\* which upg.Upgrade() returns an error, no run returns, no interrupt is
\* invoked, nothing of the group, the listener or the coordinator's exit
\* changes, and the SIGHUP goroutine is back waiting on its subscription, so
\* that the next HANGUP invokes Upgrade again.
C7_FailedUpgradeHarmless ==
    [][\A g \in Gens :
         UpgradeFails(g) =>
             /\ gen'[g].main = gen[g].main
             /\ gen'[g].hup = "wait"
             /\ gen'[g].run = gen[g].run
             /\ gen'[g].trigger = gen[g].trigger
             /\ gen'[g].intCalls = gen[g].intCalls
             /\ gen'[g].grp = gen[g].grp
             /\ gen'[g].srvInt = gen[g].srvInt
             /\ gen'[g].ln = gen[g].ln
             /\ gen'[g].fds = gen[g].fds
             /\ gen'[g].conns = gen[g].conns
             /\ gen'[g].subscribed = gen[g].subscribed
             /\ gen'[g].stopC = gen[g].stopC
             /\ gen'[g].exitCause = gen[g].exitCause]_vars

C7_Witness ==
    \E g \in Gens :
        /\ gen[g].upgRes = "err"
        /\ gen[g].hup = "wait"
        /\ gen[g].child # NoGen
        /\ Accepting(g)
        /\ gen[g].trigger = "none"
        /\ gen[g].exitCause = "none"

\* C8 as stated: with a positive ShutdownTimeout the server's interrupt,
\* once invoked, returns; after it has returned no connection is open, and a
\* connection is cut only after the deadline has passed.
C8_Orig_InterruptReturns ==
    timeout > 0 =>
        \A g \in Gens :
            /\ (gen[g].intCalls["server"] > 0 /\ EndedItself(g)) => gen[g].srvInt = "returned"
            /\ gen[g].srvInt = "returned" => gen[g].conns = 0
            /\ gen[g].forceClosed > 0 => gen[g].ctx = "done"

\* C9: with a zero or negative ShutdownTimeout the Shutdown context has no
\* deadline, and server.Close() never cuts a connection: the interrupt
\* returns only once no connection is left.
C9_NoForcedClose ==
    timeout <= 0 =>
        \A g \in Gens :
            /\ gen[g].ctx = "none"
            /\ gen[g].forceClosed = 0
            /\ gen[g].srvInt = "returned" => gen[g].conns = 0

C9_Witness ==
    \E g \in Gens :
        /\ timeout <= 0
        /\ gen[g].srvInt = "shutdown"
        /\ gen[g].run["server"] = "returned"
        /\ gen[g].conns > 0

\* C10 as stated: when tableflip.New fails the process does not start: no
\* listener is requested, no actor is registered or run, and no method of
\* the absent coordinator is invoked.
C10_Orig_SetupFailureFatal ==
    \A g \in Gens :
        gen[g].upgNil =>
            /\ ~gen[g].listenReq
            /\ gen[g].nilCalls = 0
            /\ gen[g].grp = "off"

\* C11: under fair scheduling, once the successor that a generation started on
\* a HANGUP has had Ready() succeed while the generation waits for it, the
\* generation's Exit() fires because of the upgrade, its readiness/exit actor
\* returns nil and is the trigger, and Run returns normally with its server
\* shut down. The environment may cut this short: the upgrade can time out or
\* be stopped (Upgrade returns an error), a SIGINT/SIGTERM can reach or kill
\* the generation first, its accept loop can fail on its own, or, with no
\* deadline, the drain can wait on a connection that does not finish.
C11_UpgradeLeadsToReturn ==
    \A g \in Gens :
        (Alive(g) /\ gen[g].upgRun = "doUpgrade" /\ gen[gen[g].child].readyRes = "ok")
            ~> \/ /\ ReturnedNormally(g)
                  /\ gen[g].exitCause = "upgraded"
                  /\ gen[g].trigger = "ready"
                  /\ gen[g].trigErr = "nil"
               \/ (gen[g].upgRes = "err" /\ gen[g].exitCause # "upgraded")
               \/ gen[g].termRecv
               \/ gen[g].main = "sigkilled"
               \/ gen[g].srvErr = "AcceptError"
               \/ (timeout <= 0 /\ gen[g].srvInt = "shutdown" /\ gen[g].conns > 0)

C11_Witness ==
    \E g \in Gens :
        /\ ReturnedNormally(g)
        /\ gen[g].exitCause = "upgraded"
        /\ gen[g].trigger = "ready"
        /\ gen[g].upgRes = "none"
        /\ ~gen[g].termRecv
        /\ \E c \in Gens : gen[c].parent = g /\ gen[c].readyRes = "ok" /\ Alive(c)

\* the step in which a SIGHUP reaches g
HupArrives(g) == hups' = hups + 1 /\ gen'[g] # gen[g]

\* the step in which g's SIGHUP goroutine takes a signal and calls upg.Upgrade()
HupTaken(g) == gen[g].hup = "wait" /\ gen'[g].hup = "upgrade"

\* the step in which a SIGINT or SIGTERM reaches g
TermArrives(g) == terms' = terms + 1 /\ gen'[g] # gen[g]

C13_Orig_InterruptAnyError ==
    \A g \in Gens :
        gen[g].intCalls["server"] > 0 =>
            /\ gen[g].srvInt \in {"shutdown", "returned"}
            /\ EndedItself(g) =>
                   /\ gen[g].intCalls["watcher"] = 1
                   /\ gen[g].intCalls["ready"] = 1

\* C14: a failed Shutdown is not escalated. Once server.Shutdown has returned
\* the deadline error, the server is closed (listener closed, no connection
\* left) and the server's interrupt has returned; a generation that then ends
\* on its own account has had the watcher's and the readiness/exit actor's
\* interrupts invoked and group.Run return the trigger's error unchanged.
C14_ShutdownErrorNotEscalated ==
    \A g \in Gens :
        gen[g].shutErr = "DeadlineExceeded" =>
            /\ gen[g].srvInt = "returned"
            /\ ~gen[g].ln
            /\ gen[g].conns = 0
            /\ gen[g].grp # "server"
            /\ gen[g].main # "fatal"
            /\ EndedItself(g) =>
                   /\ gen[g].intCalls["watcher"] = 1
                   /\ gen[g].intCalls["ready"] = 1
                   /\ gen[g].runReturns = 1
                   /\ gen[g].groupErr = gen[g].trigErr

C14_Witness ==
    \E g \in Gens :
        /\ gen[g].shutErr = "DeadlineExceeded"
        /\ gen[g].forceClosed > 0
        /\ gen[g].main = "returned"
        /\ gen[g].intCalls["watcher"] = 1
        /\ gen[g].intCalls["ready"] = 1
        /\ gen[g].groupErr = "nil"

\* C15 as stated: every SIGHUP that reached the subscribed process has been
\* answered by exactly one invocation of upg.Upgrade(), or is buffered in sig
\* and waits for it.
C15_Orig_OneUpgradePerHup ==
    \A g \in Gens :
        Alive(g) => gen[g].hupGot = gen[g].upgCalls + gen[g].sig

\* C15 as amended: every SIGHUP that reached the subscribed process has been
\* answered by exactly one invocation of upg.Upgrade(), or is buffered in sig
\* and waits for it, or was dropped because sig already held a signal; none
\* is handled twice.
C15_OneUpgradePerBufferedHup ==
    \A g \in Gens :
        /\ gen[g].upgCalls + gen[g].hupLost <= gen[g].hupGot
        /\ gen[g].hupLost > 0 => gen[g].hupGot > SigBuffer
        /\ Alive(g) => gen[g].hupGot = gen[g].upgCalls + gen[g].sig + gen[g].hupLost

C15_Witness ==
    \E g \in Gens :
        /\ Alive(g)
        /\ gen[g].hupGot = 2
        /\ gen[g].hupLost = 1
        /\ gen[g].upgCalls = 1
        /\ gen[g].upgRes = "err"
        /\ gen[g].hup = "wait"
        /\ gen[g].sig = 0

\* C16 as stated: an actor's interrupt has been invoked only if that actor's
\* own run has begun to execute (the watcher's has subscribed ch, the
\* server's has called Serve).
C16_Orig_InterruptAfterRunBegan ==
    \A g \in Gens : \A a \in ActorSet :
        gen[g].intCalls[a] > 0 => gen[g].run[a] # "notStarted"

\* C17 as stated: a generation that has called Ready() has obtained its
\* listener and its server actor has begun Serve.
C17_Orig_ReadyAfterServe ==
    \A g \in Gens :
        gen[g].readyC =>
            /\ gen[g].listenReq
            /\ gen[g].run["server"] # "notStarted"

\* C18 as stated: the SIGHUP goroutine stops with the group: once the
\* interrupts are being issued it takes no SIGHUP and does not call
\* upg.Upgrade().
C18_Orig_HupStopsWithGroup ==
    [][\A g \in Gens :
         HupTaken(g) => \A a \in ActorSet : gen[g].intCalls[a] = 0]_vars

\* the step in which g's upgrader starts a child process
Spawns(g) == gen[g].upgRun # "doUpgrade" /\ gen'[g].upgRun = "doUpgrade"

\* C19 as stated: a generation whose shutdown was triggered by a SIGINT or
\* SIGTERM starts no successor from then on.
C19_Orig_NoSpawnAfterTerm ==
    [][\A g \in Gens :
         Spawns(g) => ~(gen[g].termRecv /\ gen[g].trigger = "watcher")]_vars

\* C20 as stated: ch is not subscribed any more when the deferred close(ch)
\* has run, and cancelInterrupt is closed at most once.
C20_Orig_ClosedAfterUnsubscribe ==
    \A g \in Gens :
        /\ gen[g].chClosed => ~gen[g].subscribed
        /\ gen[g].intCalls["watcher"] <= 1

====
